---- MODULE Spec2Model ----
(***************************************************************************)
(* Gameplay session of the platformer: level setup, the per-frame update   *)
(* (input, physics, entity updates, collisions, lose/goal evaluation) and  *)
(* the menu flow around it.                                                *)
(*                                                                         *)
(* Units.  Lengths and velocities are integers counting 1/U of a pixel     *)
(* (U = 6, so that 2.5 px, 20/2 px and 20/1.5 px are all whole numbers).   *)
(* Times are integers counting 1/TicksPerSecond of a second.               *)
(***************************************************************************)
EXTENDS Integers, Sequences, FiniteSets, TLC

\* ------------------------------------------------------------------ bounds
MaxFrames == 3          \* on_update calls explored after each setup
TicksPerSecond == 2     \* time resolution: delta_time is k/TicksPerSecond s
MaxCoinsHit == 2        \* coins one overlap query returns at most
MaxEngineFrames == 4    \* the same as MaxFrames, when the engine is computed
MaxOutOfRange == 1      \* how far past the catalog's ends setup's index goes
MaxEnemyTicks == 80     \* on_update calls explored when only the enemies are watched
MaxJumpFrames == 45     \* on_update calls explored when only jumps are made
MaxAudioFrames == 2     \* on_update calls explored after each setup when audio may fail
MaxContactFrames == 3   \* on_update calls explored when contacts are watched
MaxKnockFrames == 54    \* on_update calls explored when the player walks into an enemy
MaxPatrolTicks == 20    \* on_update calls counted, and timed, when the patrols run on

\* ------------------------------------------------------------------- units
U == 2 * 3
Px(n, d) == (n * U) \div d          \* n/d pixels, in units
Max(a, b) == IF a >= b THEN a ELSE b
Min(a, b) == IF a <= b THEN a ELSE b

\* --------------------------------------------------------------- config.py
GRAVITY == 1
PLAYER_MOVE_SPEED == 5
PLAYER_JUMP_SPEED == 20
PLAYER_MAX_HEALTH == 3
KILL_PLANE_Y == -200

\* invuln_timer value after a hit (1.0 s)
INVULN_TIME == TicksPerSecond * 1

\* ---------------------------------------------------- levels/level_data.py
LEVELS ==
  << [ name |-> "Forest Path",
       player_start |-> <<100, 200>>,
       ground_segments |-> << <<0, 300, 100>>, <<400, 700, 100>>, <<800, 1000, 100>> >>,
       platforms |-> << <<200, 150>>, <<500, 200>>, <<600, 250>>, <<900, 200>> >>,
       coins |-> << <<250, 220>>, <<350, 220>>, <<550, 270>>, <<650, 320>>, <<950, 270>> >>,
       goal_position |-> <<950, 270>>,
       enemies |-> << [position |-> <<300, 170>>, patrol_min_x |-> 250,
                       patrol_max_x |-> 350, speed |-> Px(2, 1)] >>,
       hazards |-> << >>,
       kill_plane_y |-> KILL_PLANE_Y ],
     [ name |-> "Mountain Climb",
       player_start |-> <<100, 150>>,
       ground_segments |-> << <<0, 200, 100>>, <<300, 500, 150>>, <<600, 800, 200>>,
                              <<850, 1000, 250>> >>,
       platforms |-> << <<250, 200>>, <<450, 250>>, <<550, 300>>, <<750, 350>>,
                        <<900, 400>> >>,
       coins |-> << <<150, 170>>, <<350, 320>>, <<450, 370>>, <<600, 370>>,
                    <<650, 420>>, <<800, 470>>, <<950, 520>> >>,
       goal_position |-> <<950, 520>>,
       enemies |-> << [position |-> <<400, 220>>, patrol_min_x |-> 350,
                       patrol_max_x |-> 450, speed |-> Px(5, 2)],
                      [position |-> <<700, 270>>, patrol_min_x |-> 650,
                       patrol_max_x |-> 750, speed |-> Px(5, 2)] >>,
       hazards |-> << [type |-> "lava", position |-> <<250, 75>>, width |-> 150] >>,
       kill_plane_y |-> KILL_PLANE_Y ],
     [ name |-> "Volcano Challenge",
       player_start |-> <<100, 200>>,
       ground_segments |-> << <<0, 150, 100>>, <<200, 350, 150>>, <<400, 550, 200>>,
                              <<600, 750, 150>>, <<800, 1000, 200>> >>,
       platforms |-> << <<300, 250>>, <<500, 300>>, <<700, 250>>, <<850, 300>> >>,
       coins |-> << <<120, 270>>, <<250, 320>>, <<350, 370>>, <<450, 420>>,
                    <<550, 420>>, <<650, 320>>, <<750, 370>>, <<900, 420>> >>,
       goal_position |-> <<950, 420>>,
       enemies |-> << [position |-> <<250, 220>>, patrol_min_x |-> 200,
                       patrol_max_x |-> 300, speed |-> Px(3, 1)],
                      [position |-> <<450, 270>>, patrol_min_x |-> 400,
                       patrol_max_x |-> 500, speed |-> Px(3, 1)],
                      [position |-> <<650, 220>>, patrol_min_x |-> 600,
                       patrol_max_x |-> 700, speed |-> Px(3, 1)] >>,
       hazards |-> << [type |-> "lava", position |-> <<175, 75>>, width |-> 100],
                      [type |-> "water", position |-> <<375, 75>>, width |-> 150],
                      [type |-> "lava", position |-> <<775, 75>>, width |-> 200] >>,
       kill_plane_y |-> KILL_PLANE_Y ] >>

NumLevels == Len(LEVELS)

\* LEVELS[i] with Python's list indexing: 0-based, a negative index counts from
\* the end, anything else raises IndexError
IndexOk(i) == -NumLevels <= i /\ i < NumLevels
Level(i) == LEVELS[(IF i < 0 THEN i + NumLevels ELSE i) + 1]

\* ------------------------------------------------------------------- state
VARIABLES
  view,            \* the view the window shows: "start", "select", "game", "over"
  ready,           \* GameView.player and GameView.physics_engine are set
  level_index, score, health, total_coins, level_name, invuln_timer,
  move_left, move_right,
  player,          \* [x, y, change_x, change_y] of GameView.player
  coins,           \* indices (1-based, into the level's "coins") still in scene["Coins"]
  enemies,         \* scene["Enemies"]: sequence of [x, change_x, min_x, max_x]
  hazards,         \* scene["Hazards"]: sequence of [type, time, center_y, alpha]
  did_win, over_score, over_level_name,   \* GameOverView fields
  audio,           \* GameView's sound fields: [sounds, music_player]
  fault,           \* "none", or the exception that ended the program
  frames,          \* number of GameView.on_update calls since the last setup
  \* observations of the run (no code reads them)
  last,            \* the last step, if it was a frame: what it met and ended in
  since_hit,       \* delta_time summed since the last damage event, up to INVULN_TIME
  hit_in_level,    \* a damage event happened since the last setup
  seen             \* what a step met, in the specifications that record it

game == <<ready, level_index, score, health, total_coins, level_name, invuln_timer,
          move_left, move_right, player, coins, enemies, hazards, audio>>
over == <<did_win, over_score, over_level_name>>
obs == <<last, since_hit, hit_in_level, seen>>
vars == <<view, game, over, fault, frames, obs>>

\* ------------------------------------------------------------ sprites
\* EnemySprite.__init__
NewEnemy(spec) ==
  [ x |-> spec.position[1] * U, change_x |-> spec.speed,
    min_x |-> spec.patrol_min_x * U, max_x |-> spec.patrol_max_x * U ]

\* variant: the enemy turns at a boundary without being put back on it
EnemyUpdateNoClamp(e) ==
  LET x1 == e.x + e.change_x IN
  IF x1 < e.min_x \/ x1 > e.max_x THEN [e EXCEPT !.x = x1, !.change_x = -e.change_x]
  ELSE [e EXCEPT !.x = x1]

\* variant: the enemy turns at a boundary from where it stands
EnemyUpdateBounces(e) ==
  LET x1 == e.x + e.change_x IN
  IF x1 < e.min_x \/ x1 > e.max_x THEN [e EXCEPT !.change_x = -e.change_x]
  ELSE [e EXCEPT !.x = x1]

\* variant: the right boundary puts the enemy back without turning it
EnemyUpdateNoTurnAtMax(e) ==
  LET x1 == e.x + e.change_x IN
  IF x1 < e.min_x THEN [e EXCEPT !.x = e.min_x, !.change_x = -e.change_x]
  ELSE IF x1 > e.max_x THEN [e EXCEPT !.x = e.max_x]
  ELSE [e EXCEPT !.x = x1]

\* EnemySprite.update: delta_time is not used
EnemyUpdate(e) ==
  LET x1 == e.x + e.change_x IN
  IF x1 < e.min_x THEN [e EXCEPT !.x = e.min_x, !.change_x = -e.change_x]
  ELSE IF x1 > e.max_x THEN [e EXCEPT !.x = e.max_x, !.change_x = -e.change_x]
  ELSE [e EXCEPT !.x = x1]

\* LavaHazard.__init__ / WaterHazard.__init__ (alpha of a new sprite is 255)
NewHazard(spec) ==
  [ type |-> IF spec.type = "lava" THEN "lava" ELSE "water",
    time |-> 0, base_y |-> spec.position[2] * U,
    center_y |-> spec.position[2] * U, alpha |-> 255 ]

\* variant: the water offset is not reduced modulo 2
HazardUpdateAnimationNoWrap(h, dt) ==
  LET t == h.time + dt IN
  IF h.type = "lava"
  THEN [h EXCEPT !.time = t,
                 !.alpha = 200 + 55 * (((4 * t) \div TicksPerSecond) % 2)]
  ELSE [h EXCEPT !.time = t,
                 !.center_y = h.base_y + U * ((6 * t) \div TicksPerSecond)]

\* LavaHazard.update_animation / WaterHazard.update_animation
\* int(time * 4) % 2 and int(3 * (time * 2) % 2), with time = t/TicksPerSecond
HazardUpdateAnimation(h, dt) ==
  LET t == h.time + dt IN
  IF h.type = "lava"
  THEN [h EXCEPT !.time = t,
                 !.alpha = 200 + 55 * (((4 * t) \div TicksPerSecond) % 2)]
  ELSE [h EXCEPT !.time = t,
                 !.center_y = h.base_y + U * (((6 * t) % (2 * TicksPerSecond))
                                                \div TicksPerSecond)]

MapSeq(Op(_), s) == [i \in 1..Len(s) |-> Op(s[i])]

\* ------------------------------------------------------------ GameView.setup
\* variant: health is reset on every level
SetupFieldsResetHealth(li, sc, h) ==
  LET level == Level(li) IN
  [ level_index |-> li,
    level_name |-> level.name,
    player |-> [ x |-> level.player_start[1] * U, y |-> level.player_start[2] * U,
                 change_x |-> 0, change_y |-> 0 ],
    coins |-> 1..Len(level.coins),
    total_coins |-> Len(level.coins),
    enemies |-> MapSeq(NewEnemy, level.enemies),
    hazards |-> MapSeq(NewHazard, level.hazards),
    score |-> IF li = 0 THEN 0 ELSE sc,
    health |-> PLAYER_MAX_HEALTH,
    invuln_timer |-> 0 ]

\* variant: the score is reset on every level
SetupFieldsResetScore(li, sc, h) ==
  LET level == Level(li) IN
  [ level_index |-> li,
    level_name |-> level.name,
    player |-> [ x |-> level.player_start[1] * U, y |-> level.player_start[2] * U,
                 change_x |-> 0, change_y |-> 0 ],
    coins |-> 1..Len(level.coins),
    total_coins |-> Len(level.coins),
    enemies |-> MapSeq(NewEnemy, level.enemies),
    hazards |-> MapSeq(NewHazard, level.hazards),
    score |-> 0,
    health |-> IF li = 0 THEN PLAYER_MAX_HEALTH ELSE h,
    invuln_timer |-> 0 ]

\* variant: setup leaves the invulnerability timer running
SetupFieldsTimerRuns(li, sc, h) ==
  LET level == Level(li) IN
  [ level_index |-> li,
    level_name |-> level.name,
    player |-> [ x |-> level.player_start[1] * U, y |-> level.player_start[2] * U,
                 change_x |-> 0, change_y |-> 0 ],
    coins |-> 1..Len(level.coins),
    total_coins |-> Len(level.coins),
    enemies |-> MapSeq(NewEnemy, level.enemies),
    hazards |-> MapSeq(NewHazard, level.hazards),
    score |-> IF li = 0 THEN 0 ELSE sc,
    health |-> IF li = 0 THEN PLAYER_MAX_HEALTH ELSE h,
    invuln_timer |-> INVULN_TIME ]

\* The fields setup(level_index) assigns, given the score and health it finds.
SetupFields(li, sc, h) ==
  LET level == Level(li) IN
  [ level_index |-> li,
    level_name |-> level.name,
    player |-> [ x |-> level.player_start[1] * U, y |-> level.player_start[2] * U,
                 change_x |-> 0, change_y |-> 0 ],
    coins |-> 1..Len(level.coins),
    total_coins |-> Len(level.coins),
    enemies |-> MapSeq(NewEnemy, level.enemies),
    hazards |-> MapSeq(NewHazard, level.hazards),
    score |-> IF li = 0 THEN 0 ELSE sc,
    health |-> IF li = 0 THEN PLAYER_MAX_HEALTH ELSE h,
    invuln_timer |-> 0 ]

\* GameView.setup(i), on a GameView whose score and health are sc and h
SetupFrom(i, sc, h) ==
  IF IndexOk(i)
  THEN \E f \in {SetupFields(i, sc, h)} :
       /\ ready' = TRUE
       /\ level_index' = f.level_index
       /\ level_name' = f.level_name
       /\ player' = f.player
       /\ coins' = f.coins
       /\ total_coins' = f.total_coins
       /\ enemies' = f.enemies
       /\ hazards' = f.hazards
       /\ score' = f.score
       /\ health' = f.health
       /\ invuln_timer' = f.invuln_timer
       /\ fault' = fault
       /\ frames' = 0
  ELSE \* line 76 and the new empty scene are done, then LEVELS[i] raises
       /\ level_index' = i
       /\ coins' = {}
       /\ enemies' = << >>
       /\ hazards' = << >>
       /\ fault' = "IndexError"
       /\ UNCHANGED <<ready, level_name, player, total_coins, score, health,
                      invuln_timer, frames>>

\* ------------------------------------------------------------------- audio
\* sounds counts the sound fields that are set, in the order setup loads
\* them: coin_sound, jump_sound, hit_sound, win_sound, lose_sound
NumSounds == 2 + 3

\* GameView.__init__: the sound fields and music_player are None
NoAudio == [sounds |-> 0, music_player |-> FALSE]

\* What arcade's audio calls do during one handler: sfx = how many of the
\* sound effects load_sound returns before it raises, music = load_sound of
\* the background music raises, play / stop = play_sound / stop_sound raise
AudioOutcomes ==
  [sfx : {0, 2, NumSounds}, music : BOOLEAN, play : BOOLEAN, stop : BOOLEAN]

AudioWorks == [sfx |-> NumSounds, music |-> FALSE, play |-> FALSE, stop |-> FALSE]

\* variant: the call is not inside a try block
TryUnguarded(failed) == failed

\* try: <call> except: pass -- whether the call's failure leaves the handler
TryExceptPass(failed) == FALSE

\* setup lines 149-166: the sound fields after it
SetupAudio(a, li, f) ==
  [ sounds |-> IF a.sounds = 0 THEN f.sfx ELSE a.sounds,
    music_player |-> IF li = 0 /\ ~a.music_player
                     THEN ~(f.music \/ f.play) ELSE a.music_player ]

\* setup lines 149-166: one of the audio calls it makes raises
SetupAudioRaises(a, li, f) ==
  \/ a.sounds = 0 /\ f.sfx < NumSounds
  \/ li = 0 /\ ~a.music_player /\ (f.music \/ f.play)

\* ------------------------------------------------- per-frame helper methods
\* variant: with no key held the player keeps the velocity it has
HandleInputKeepsVelocity(p, ml, mr) ==
  IF ml \/ mr
  THEN [p EXCEPT !.change_x = (IF mr THEN PLAYER_MOVE_SPEED * U ELSE 0)
                              - (IF ml THEN PLAYER_MOVE_SPEED * U ELSE 0)]
  ELSE p

\* GameView._handle_input
HandleInput(p, ml, mr) ==
  [p EXCEPT !.change_x = (IF mr THEN PLAYER_MOVE_SPEED * U ELSE 0)
                         - (IF ml THEN PLAYER_MOVE_SPEED * U ELSE 0)]

\* The collision checks work on s = [score, health, invuln_timer, player, coins].

\* variant: a coin that was hit stays in scene["Coins"]
CheckCoinCollisionsNoRemove(s, hit) ==
  [s EXCEPT !.score = @ + Cardinality(hit)]

\* variant: a frame scores one point however many coins it picks up
CheckCoinCollisionsOnePoint(s, hit) ==
  [s EXCEPT !.coins = @ \ hit, !.score = @ + (IF hit = {} THEN 0 ELSE 1)]

\* GameView._check_coin_collisions; hit = the coins of scene["Coins"] the
\* overlap query returned
CheckCoinCollisions(s, hit) ==
  [s EXCEPT !.coins = @ \ hit, !.score = @ + Cardinality(hit)]

\* variant: the timer is not floored at 0
CheckEnemyCollisionsNoFloor(s, dt, hits) ==
  LET t == s.invuln_timer - dt IN
  IF t > 0 THEN [s EXCEPT !.invuln_timer = t]
  ELSE IF hits
       THEN [s EXCEPT !.health = @ - 1,
                      !.invuln_timer = INVULN_TIME,
                      !.player.change_y = Px(PLAYER_JUMP_SPEED, 2),
                      !.player.change_x = -@]
       ELSE [s EXCEPT !.invuln_timer = t]

\* variant: contact hurts while the timer runs
CheckEnemyCollisionsNoWindow(s, dt, hits) ==
  LET t == Max(0, s.invuln_timer - dt) IN
  IF hits
  THEN [s EXCEPT !.health = @ - 1,
                 !.invuln_timer = INVULN_TIME,
                 !.player.change_y = Px(PLAYER_JUMP_SPEED, 2),
                 !.player.change_x = -@]
  ELSE [s EXCEPT !.invuln_timer = t]

\* variant: contact with an enemy does not turn the player round
CheckEnemyCollisionsKeepsDirection(s, dt, hits) ==
  LET t == Max(0, s.invuln_timer - dt) IN
  IF t > 0 THEN [s EXCEPT !.invuln_timer = t]
  ELSE IF hits
       THEN [s EXCEPT !.health = @ - 1,
                      !.invuln_timer = INVULN_TIME,
                      !.player.change_y = Px(PLAYER_JUMP_SPEED, 2)]
       ELSE [s EXCEPT !.invuln_timer = t]

\* variant: an enemy hit does not start the invulnerability window
CheckEnemyCollisionsNoArm(s, dt, hits) ==
  LET t == Max(0, s.invuln_timer - dt) IN
  IF t > 0 THEN [s EXCEPT !.invuln_timer = t]
  ELSE IF hits
       THEN [s EXCEPT !.health = @ - 1,
                      !.invuln_timer = t,
                      !.player.change_y = Px(PLAYER_JUMP_SPEED, 2),
                      !.player.change_x = -@]
       ELSE [s EXCEPT !.invuln_timer = t]

\* GameView._check_enemy_collisions; hits = the overlap query's list is non-empty
CheckEnemyCollisions(s, dt, hits) ==
  LET t == Max(0, s.invuln_timer - dt) IN
  IF t > 0 THEN [s EXCEPT !.invuln_timer = t]
  ELSE IF hits
       THEN [s EXCEPT !.health = @ - 1,
                      !.invuln_timer = INVULN_TIME,
                      !.player.change_y = Px(PLAYER_JUMP_SPEED, 2),
                      !.player.change_x = -@]
       ELSE [s EXCEPT !.invuln_timer = t]

\* variant: the hazard check does not look at the timer
CheckHazardCollisionsNoTimer(s, hits) ==
  IF hits
  THEN [s EXCEPT !.health = @ - 1,
                 !.invuln_timer = INVULN_TIME,
                 !.player.change_y = Px(PLAYER_JUMP_SPEED * 2, 3)]
  ELSE s

\* variant: a hazard knocks the player back as an enemy does
CheckHazardCollisionsAsEnemy(s, hits) ==
  IF s.invuln_timer > 0 THEN s
  ELSE IF hits
       THEN [s EXCEPT !.health = @ - 1,
                      !.invuln_timer = INVULN_TIME,
                      !.player.change_y = Px(PLAYER_JUMP_SPEED, 2),
                      !.player.change_x = -@]
       ELSE s

\* GameView._check_hazard_collisions; PLAYER_JUMP_SPEED / 1.5 = 2/3 of it
CheckHazardCollisions(s, hits) ==
  IF s.invuln_timer > 0 THEN s
  ELSE IF hits
       THEN [s EXCEPT !.health = @ - 1,
                      !.invuln_timer = INVULN_TIME,
                      !.player.change_y = Px(PLAYER_JUMP_SPEED * 2, 3)]
       ELSE s

\* variant: the goal is not gated by the score
CheckGoalNoGate(s, total, overlap) == overlap

\* GameView._check_goal; overlap = the player collides with goal_list[0]
CheckGoal(s, total, overlap) == overlap /\ s.score >= total

\* variant: the kill plane is not looked at
CheckLoseHealthOnly(s, li) == s.health <= 0

\* GameView._check_lose
CheckLose(s, li) ==
  \/ s.health <= 0
  \/ s.player.y < Level(li).kill_plane_y * U

\* on_update lines 325-327: the three collision checks, in order
Collisions(s, dt, coinsHit, enemyHit, hazardHit) ==
  CheckHazardCollisions(
    CheckEnemyCollisions(CheckCoinCollisions(s, coinsHit), dt, enemyHit),
    hazardHit)

\* variant: the goal is looked at before the loss
OutcomeGoalFirst(s, li, total, goalHit) ==
  IF CheckGoal(s, total, goalHit)
  THEN (IF li + 1 < NumLevels THEN "advance" ELSE "won")
  ELSE IF CheckLose(s, li) THEN "lost" ELSE "playing"

\* variant: the last level's goal asks for one more level
OutcomeOneLevelMore(s, li, total, goalHit) ==
  IF CheckLose(s, li) THEN "lost"
  ELSE IF CheckGoal(s, total, goalHit)
       THEN (IF li + 1 <= NumLevels THEN "advance" ELSE "won")
       ELSE "playing"

\* on_update lines 329-363: what the frame ends in
Outcome(s, li, total, goalHit) ==
  IF CheckLose(s, li) THEN "lost"
  ELSE IF CheckGoal(s, total, goalHit)
       THEN (IF li + 1 < NumLevels THEN "advance" ELSE "won")
       ELSE "playing"

\* seen, before anything was recorded: rested = the physics engine has
\* stopped the player on a wall; dt, p, coinsHit, enemyHit, hazardHit,
\* goalHit = the last frame's delta_time, the player after its physics step
\* and its overlap answers; raised = an audio call of the last handler raised
NothingSeen ==
  [ rested |-> FALSE, dt |-> 0,
    p |-> [x |-> 0, y |-> 0, change_x |-> 0, change_y |-> 0],
    coinsHit |-> {}, enemyHit |-> FALSE, hazardHit |-> FALSE, goalHit |-> FALSE,
    raised |-> FALSE ]

\* ------------------------------------------------------ GameView.on_update
\* last, after a step that is not a frame
NoFrame == [out |-> "none", lose |-> FALSE, clear |-> FALSE, score |-> 0,
            health |-> 0, left |-> 0, zero |-> FALSE, hurt |-> FALSE,
            waited |-> FALSE, fresh |-> FALSE, due |-> FALSE]

\* One frame, given what the engine returns in it: p1 the player after
\* _handle_input and physics_engine.update(), and the results of the four
\* overlap queries (made after the enemies and hazards have been updated).
\* n = the count of the level's frames after this one.
FrameCounting(dt, p1, coinsHit, enemyHit, hazardHit, goalHit, n) ==
  \E s \in {Collisions([score |-> score, health |-> health,
                        invuln_timer |-> invuln_timer, player |-> p1,
                        coins |-> coins],
                       dt, coinsHit, enemyHit, hazardHit)} :
  \E out \in {Outcome(s, level_index, total_coins, goalHit)} :
    /\ UNCHANGED <<move_left, move_right>>
    /\ last' = [out |-> out,
                lose |-> (s.health <= 0 \/ p1.y < Level(level_index).kill_plane_y * U),
                clear |-> (goalHit /\ s.score >= total_coins),
                score |-> s.score, health |-> s.health,
                left |-> Cardinality(s.coins),
                zero |-> (dt = 0 /\ frames = 0),
                hurt |-> (s.health < health),
                waited |-> (since_hit + dt >= INVULN_TIME),
                fresh |-> ~hit_in_level,
                due |-> (enemyHit /\ since_hit + dt >= INVULN_TIME)]
    /\ since_hit' = IF s.health < health THEN 0 ELSE Min(INVULN_TIME, since_hit + dt)
    /\ hit_in_level' = (out # "advance" /\ (hit_in_level \/ s.health < health))
    /\ IF out = "advance"
       THEN /\ SetupFrom(level_index + 1, s.score, s.health)
            /\ UNCHANGED <<view, over>>
       ELSE /\ score' = s.score
            /\ health' = s.health
            /\ invuln_timer' = s.invuln_timer
            /\ player' = s.player
            /\ coins' = s.coins
            /\ enemies' = MapSeq(EnemyUpdate, enemies)
            /\ hazards' = [i \in 1..Len(hazards) |->
                             HazardUpdateAnimation(hazards[i], dt)]
            /\ frames' = n
            /\ UNCHANGED <<ready, level_index, total_coins, level_name, fault>>
            /\ IF out = "playing"
               THEN UNCHANGED <<view, over>>
               ELSE /\ view' = "over"       \* GameOverView(did_win, score, level_name)
                    /\ did_win' = (out = "won")
                    /\ over_score' = s.score
                    /\ over_level_name' = level_name

\* One frame, counted
Frame(dt, p1, coinsHit, enemyHit, hazardHit, goalHit) ==
  FrameCounting(dt, p1, coinsHit, enemyHit, hazardHit, goalHit, frames + 1)

\* on_update's audio calls (coin and hit sounds of the collision checks, lines
\* 331-340, 347-351 and 357-361, and the next level's setup): one raises
FrameAudioRaises(a, sc, h, s, out, li, f) ==
  \/ f.play /\ \/ s.score > sc /\ a.sounds >= 1              \* coin_sound
               \/ s.health < h /\ a.sounds >= 3              \* hit_sound
               \/ out \in {"advance", "won"} /\ a.sounds >= 4 \* win_sound
               \/ out = "lost" /\ a.sounds >= 5               \* lose_sound
  \/ f.stop /\ a.music_player /\ out \in {"lost", "won"}
  \/ out = "advance" /\ SetupAudioRaises(a, li + 1, f)

\* The sound fields after a frame that ran Frame: only the setup of the next
\* level assigns them
FrameAudio(f) ==
  audio' = IF last'.out = "advance" THEN SetupAudio(audio, level_index + 1, f)
           ELSE audio

\* delta_time values of a frame: 0 .. 1 s
DeltaTimes == 0..TicksPerSecond

\* The first k coins of the live list (the overlap query returns members of
\* scene["Coins"]; the session only counts and removes them)
FirstCoins(cs, k) == {c \in cs : Cardinality({d \in cs : d < c}) < k}

\* Positions arcade's physics engine can leave the player at, sampled: where
\* it was (resting), and just below the level's kill plane
PhysicsOutcomes(p, li) ==
  { [p EXCEPT !.y = y, !.change_y = 0] : y \in {p.y, Level(li).kill_plane_y * U - 1} }

\* GameView.on_update(delta_time), the engine's answers being inputs
OnUpdate ==
  /\ view = "game" /\ fault = "none" /\ ready
  /\ frames < MaxFrames
  /\ \E dt \in DeltaTimes, k \in 0..Min(MaxCoinsHit, Cardinality(coins)),
        enemyHit \in {FALSE} \cup {Len(enemies) > 0},
        hazardHit \in {FALSE} \cup {Len(hazards) > 0},
        goalHit \in BOOLEAN :
       \E p1 \in PhysicsOutcomes(HandleInput(player, move_left, move_right), level_index) :
          Frame(dt, p1, FirstCoins(coins, k), enemyHit, hazardHit, goalHit)
  /\ FrameAudio(AudioWorks)
  /\ UNCHANGED seen

\* GameView.on_key_press; canJump = physics_engine.can_jump()
OnKeyPress(key, canJump) ==
  /\ view = "game" /\ fault = "none" /\ ready
  /\ CASE key = "LEFT" -> move_left' = TRUE /\ UNCHANGED <<move_right, player>>
       [] key = "RIGHT" -> move_right' = TRUE /\ UNCHANGED <<move_left, player>>
       [] key = "UP" ->
            /\ player' = IF canJump THEN [player EXCEPT !.change_y = PLAYER_JUMP_SPEED * U]
                         ELSE player
            /\ UNCHANGED <<move_left, move_right>>
  /\ UNCHANGED <<view, ready, level_index, score, health, total_coins, level_name,
                 invuln_timer, coins, enemies, hazards, audio, over, fault, frames,
                 since_hit, hit_in_level, seen>>
  /\ last' = NoFrame

\* GameView.on_key_release
OnKeyRelease(key) ==
  /\ view = "game" /\ fault = "none"
  /\ CASE key = "LEFT" -> move_left' = FALSE /\ UNCHANGED move_right
       [] key = "RIGHT" -> move_right' = FALSE /\ UNCHANGED move_left
  /\ UNCHANGED <<view, ready, level_index, score, health, total_coins, level_name,
                 invuln_timer, player, coins, enemies, hazards, audio, over, fault,
                 frames, since_hit, hit_in_level, seen>>
  /\ last' = NoFrame

\* ------------------------------------------------------------- menu flow
\* variant: ENTER on the game-over view shows the finished GameView again
GameOverKeyPressResume ==
  /\ view = "over" /\ fault = "none"
  /\ view' = "game"
  /\ did_win' = FALSE /\ over_score' = 0 /\ over_level_name' = ""
  /\ last' = NoFrame
  /\ UNCHANGED <<game, fault, frames, since_hit, hit_in_level, seen>>

\* GameOverView.on_key_press (ENTER): StartView replaces the game-over view,
\* and nothing refers to the GameOverView any more
GameOverKeyPress ==
  /\ view = "over" /\ fault = "none"
  /\ view' = "start"
  /\ did_win' = FALSE /\ over_score' = 0 /\ over_level_name' = ""
  /\ last' = NoFrame
  /\ UNCHANGED <<game, fault, frames, since_hit, hit_in_level, seen>>

\* StartView.on_key_press (ENTER / SPACE)
StartKeyPress ==
  /\ view = "start" /\ fault = "none"
  /\ view' = "select"
  /\ UNCHANGED <<game, over, fault, frames, obs>>

\* CharacterSelectView.on_key_press (ENTER / SPACE): GameView(gender), setup(0)
SelectKeyPress ==
  /\ view = "select" /\ fault = "none"
  /\ view' = "game"
  /\ move_left' = FALSE /\ move_right' = FALSE
  /\ SetupFrom(0, 0, PLAYER_MAX_HEALTH)
  /\ audio' = SetupAudio(NoAudio, 0, AudioWorks)
  /\ last' = NoFrame /\ since_hit' = INVULN_TIME /\ hit_in_level' = FALSE
  /\ UNCHANGED <<over, seen>>

\* The window shows StartView
Init ==
  /\ view = "start"
  /\ ready = FALSE
  /\ level_index = 0 /\ score = 0 /\ health = PLAYER_MAX_HEALTH
  /\ total_coins = 0 /\ level_name = "" /\ invuln_timer = 0
  /\ move_left = FALSE /\ move_right = FALSE
  /\ player = [x |-> 0, y |-> 0, change_x |-> 0, change_y |-> 0]
  /\ coins = {} /\ enemies = << >> /\ hazards = << >>
  /\ did_win = FALSE /\ over_score = 0 /\ over_level_name = ""
  /\ fault = "none"
  /\ frames = 0
  /\ audio = NoAudio
  /\ last = NoFrame /\ since_hit = INVULN_TIME /\ hit_in_level = FALSE
  /\ seen = NothingSeen

\* The session with the engine's answers as inputs
Next ==
  \/ StartKeyPress
  \/ SelectKeyPress
  \/ OnUpdate
  \/ GameOverKeyPress

Spec == Init /\ [][Next]_vars

\* ================================================= the engine, computed
\* arcade's physics engine and overlap queries on the level's geometry.  Hit
\* boxes are the scaled texture rectangles (tiles, coins, enemies, hazards and
\* the exit sign are 128 px textures, the player's is 96 x 128 px).
Abs(a) == IF a < 0 THEN -a ELSE a

PLAYER_HW == (96 * U) \div 2          \* CHARACTER_SCALING = 1.0
PLAYER_HH == (128 * U) \div 2
TILE_H == (128 * U) \div 4            \* TILE_SCALING = 0.5
COIN_H == (128 * U) \div 4            \* COIN_SCALING = 0.5
ENEMY_H == (128 * U * 6) \div 20      \* ENEMY_SCALING = 0.6
GOAL_H == (128 * U * 3) \div 8        \* TILE_SCALING * 1.5
HAZARD_HH == (128 * U) \div 4         \* HAZARD_SCALING = 0.5

\* arcade.check_for_collision on two boxes given by centre and half sizes
Hits(ax, ay, ahw, ahh, bx, by, bhw, bhh) ==
  Abs(ax - bx) < ahw + bhw /\ Abs(ay - by) < ahh + bhh

\* scene["Walls"] of each level: range(start_x, end_x, 64) per ground segment,
\* and the platforms (pixels)
WALLS ==
  [ n \in 1..NumLevels |->
      LET level == LEVELS[n] IN
      UNION { { <<seg[1] + 64 * k, seg[3]>> : k \in 0..((seg[2] - seg[1] - 1) \div 64) } :
              seg \in { level.ground_segments[m] : m \in 1..Len(level.ground_segments) } }
      \cup { level.platforms[m] : m \in 1..Len(level.platforms) } ]

Walls(li) == WALLS[(IF li < 0 THEN li + NumLevels ELSE li) + 1]

HitsWall(li, x, y) ==
  \E w \in Walls(li) : Hits(x, y, PLAYER_HW, PLAYER_HH, w[1] * U, w[2] * U, TILE_H, TILE_H)

\* the engine backs the player out of the walls step by step (1 px against an
\* upward move, 1/4 px against a downward one; positions and box sizes are
\* whole pixels here, so both stop on a whole pixel): the number of pixels
\* until no wall is hit (a level is 1000 px wide)
BackOutRange == 0..(1000 + 2 * 64)

BackOutY(li, x, y, step) ==
  y + step * (CHOOSE k \in BackOutRange :
                /\ ~HitsWall(li, x, y + k * step)
                /\ \A j \in 0..(k - 1) : HitsWall(li, x, y + j * step))

BackOutX(li, x, y, step) ==
  x + step * (CHOOSE k \in BackOutRange :
                /\ ~HitsWall(li, x + k * step, y)
                /\ \A j \in 0..(k - 1) : HitsWall(li, x + j * step, y))

\* PhysicsEnginePlatformer.update(): gravity, the move in y resolved against
\* the walls (which stops the fall), then the move in x.  delta_time is not
\* an argument of it.
PhysicsUpdate(p, li) ==
  LET vy == p.change_y - GRAVITY * U
      y1 == p.y + vy
      hitY == HitsWall(li, p.x, y1)
      y2 == IF hitY THEN BackOutY(li, p.x, y1, IF vy > 0 THEN -U ELSE U) ELSE y1
      x1 == p.x + p.change_x
      x2 == IF p.change_x # 0 /\ HitsWall(li, x1, y2)
            THEN BackOutX(li, x1, y2, IF p.change_x > 0 THEN -U ELSE U)
            ELSE x1
  IN [p EXCEPT !.x = x2, !.y = y2, !.change_y = IF hitY THEN 0 ELSE vy]

\* variant: a wall within 25 px below the player is enough
CanJumpFar(p, li) == HitsWall(li, p.x, p.y - 5 * 5 * U)

\* PhysicsEnginePlatformer.can_jump(): a wall within 5 px below the player
CanJump(p, li) == HitsWall(li, p.x, p.y - 5 * U)

\* arcade.check_for_collision_with_list(player, scene["Coins"])
CoinsAt(p, li, cs) ==
  { c \in cs : Hits(p.x, p.y, PLAYER_HW, PLAYER_HH,
                    Level(li).coins[c][1] * U, Level(li).coins[c][2] * U, COIN_H, COIN_H) }

\* arcade.check_for_collision_with_list(player, scene["Enemies"]) is not empty
EnemiesAt(p, li, es) ==
  \E i \in 1..Len(es) :
     Hits(p.x, p.y, PLAYER_HW, PLAYER_HH,
          es[i].x, Level(li).enemies[i].position[2] * U, ENEMY_H, ENEMY_H)

\* arcade.check_for_collision_with_list(player, scene["Hazards"]) is not empty
HazardsAt(p, li, hs) ==
  \E i \in 1..Len(hs) :
     Hits(p.x, p.y, PLAYER_HW, PLAYER_HH,
          Level(li).hazards[i].position[1] * U, hs[i].center_y,
          (Level(li).hazards[i].width * U) \div 2, HAZARD_HH)

\* arcade.check_for_collision(player, goal_list[0])
GoalAt(p, li) ==
  Hits(p.x, p.y, PLAYER_HW, PLAYER_HH,
       Level(li).goal_position[1] * U, Level(li).goal_position[2] * U, GOAL_H, GOAL_H)

\* GameView.on_update(delta_time), the engine computed
OnUpdateEngine ==
  /\ view = "game" /\ fault = "none" /\ ready
  /\ frames < MaxEngineFrames
  /\ \E dt \in DeltaTimes :
     \E p1 \in {PhysicsUpdate(HandleInput(player, move_left, move_right), level_index)} :
       Frame(dt, p1,
             CoinsAt(p1, level_index, coins),
             EnemiesAt(p1, level_index, MapSeq(EnemyUpdate, enemies)),
             HazardsAt(p1, level_index,
                       [i \in 1..Len(hazards) |-> HazardUpdateAnimation(hazards[i], dt)]),
             GoalAt(p1, level_index))
  /\ FrameAudio(AudioWorks)
  /\ UNCHANGED seen

\* GameView.on_key_press, can_jump() computed
OnKeyPressEngine(key) ==
  /\ view = "game"
  /\ OnKeyPress(key, CanJump(player, level_index))

\* A caller's GameView(gender); setup(i); show_view(game_view), as character
\* select does it with i = 0
IndexInputs == (0 - NumLevels - MaxOutOfRange)..(NumLevels - 1 + MaxOutOfRange)

SetupCall(i) ==
  /\ view = "select" /\ fault = "none"
  /\ move_left' = FALSE /\ move_right' = FALSE
  /\ SetupFrom(i, 0, PLAYER_MAX_HEALTH)
  /\ audio' = IF IndexOk(i) THEN SetupAudio(NoAudio, i, AudioWorks) ELSE NoAudio
  /\ view' = IF IndexOk(i) THEN "game" ELSE view
  /\ last' = NoFrame /\ since_hit' = INVULN_TIME /\ hit_in_level' = FALSE
  /\ UNCHANGED <<over, seen>>

NextEngine ==
  \/ StartKeyPress
  \/ \E i \in IndexInputs : SetupCall(i)
  \/ OnUpdateEngine
  \/ \E key \in {"LEFT", "RIGHT", "UP"} : OnKeyPressEngine(key)
  \/ \E key \in {"LEFT", "RIGHT"} : OnKeyRelease(key)

SpecEngine == Init /\ [][NextEngine]_vars

\* ============================================ the session, audio failing
\* CharacterSelectView.on_key_press (ENTER / SPACE), whatever the audio
\* calls of setup do
SelectKeyPressAudio ==
  /\ view = "select" /\ fault = "none"
  /\ \E f \in AudioOutcomes :
       IF TryExceptPass(SetupAudioRaises(NoAudio, 0, f))
       THEN /\ fault' = "AudioError"
            /\ UNCHANGED <<view, game, over, frames, obs>>
       ELSE /\ view' = "game"
            /\ move_left' = FALSE /\ move_right' = FALSE
            /\ SetupFrom(0, 0, PLAYER_MAX_HEALTH)
            /\ audio' = SetupAudio(NoAudio, 0, f)
            /\ last' = NoFrame /\ since_hit' = INVULN_TIME /\ hit_in_level' = FALSE
            /\ seen' = [NothingSeen EXCEPT !.raised = SetupAudioRaises(NoAudio, 0, f)]
            /\ UNCHANGED over

\* GameView.on_update(delta_time), the engine's answers being inputs (all
\* the live coins or none are hit, at one frame a second), whatever the
\* audio calls do (the music
\* is loaded by setup(0) only, the sound effects only while coin_sound is
\* None: the outcomes of loads that are not made are left out)
OnUpdateAudio ==
  /\ view = "game" /\ fault = "none" /\ ready
  /\ frames < MaxAudioFrames
  /\ \E f \in {g \in AudioOutcomes :
                   ~g.music /\ (audio.sounds # 0 => g.sfx = NumSounds)},
        dt \in {TicksPerSecond}, coinsHit \in {{}, coins},
        enemyHit \in {FALSE} \cup {Len(enemies) > 0},
        hazardHit \in {FALSE} \cup {Len(hazards) > 0},
        goalHit \in BOOLEAN :
       \E p1 \in PhysicsOutcomes(HandleInput(player, move_left, move_right), level_index) :
       \E s \in {Collisions([score |-> score, health |-> health,
                              invuln_timer |-> invuln_timer, player |-> p1,
                              coins |-> coins],
                             dt, coinsHit, enemyHit, hazardHit)} :
       \E raises \in {FrameAudioRaises(audio, score, health, s,
                                        Outcome(s, level_index, total_coins, goalHit),
                                        level_index, f)} :
          IF TryExceptPass(raises)
          THEN /\ fault' = "AudioError"
               /\ UNCHANGED <<view, game, over, frames, obs>>
          ELSE /\ Frame(dt, p1, coinsHit, enemyHit, hazardHit, goalHit)
               /\ FrameAudio(f)
               /\ seen' = [seen EXCEPT !.dt = dt, !.p = p1, !.coinsHit = coinsHit,
                                        !.enemyHit = enemyHit, !.hazardHit = hazardHit,
                                        !.goalHit = goalHit, !.raised = raises]

NextAudio ==
  \/ StartKeyPress
  \/ SelectKeyPressAudio
  \/ OnUpdateAudio

SpecAudio == Init /\ [][NextAudio]_vars

\* ========================================== contacts, the player walking
\* GameView.on_update(delta_time) with the player walking on the ground, away
\* from the coins and the goal; the enemy and hazard queries are inputs
OnUpdateContact ==
  /\ view = "game" /\ fault = "none" /\ ready
  /\ frames < MaxContactFrames
  /\ \E dt \in DeltaTimes,
        enemyHit \in {FALSE} \cup {Len(enemies) > 0},
        hazardHit \in {FALSE} \cup {Len(hazards) > 0} :
       \E p1 \in {[HandleInput(player, move_left, move_right) EXCEPT !.change_y = 0]} :
          /\ Frame(dt, p1, {}, enemyHit, hazardHit, FALSE)
          /\ seen' = [seen EXCEPT !.dt = dt, !.p = p1, !.coinsHit = {},
                                   !.enemyHit = enemyHit, !.hazardHit = hazardHit,
                                   !.goalHit = FALSE]
  /\ FrameAudio(AudioWorks)

NextContact ==
  \/ StartKeyPress
  \/ \E i \in IndexInputs : SetupCall(i)
  \/ OnUpdateContact
  \/ \E key \in {"LEFT", "RIGHT"} : OnKeyPressEngine(key)
  \/ \E key \in {"LEFT", "RIGHT"} : OnKeyRelease(key)

SpecContact == Init /\ [][NextContact]_vars

\* ================================================= jumps on level 0, alone
\* The player's box lies on the top of a wall
Grounded(p, li) == HitsWall(li, p.x, p.y - U)

\* GameView.on_update(delta_time), the engine computed, at a steady frame
\* rate; records whether the engine has stopped the player on a wall
OnUpdateJump ==
  /\ view = "game" /\ fault = "none" /\ ready
  /\ frames < MaxJumpFrames
  /\ \E p1 \in {PhysicsUpdate(HandleInput(player, move_left, move_right), level_index)} :
       /\ Frame(1, p1,
                CoinsAt(p1, level_index, coins),
                EnemiesAt(p1, level_index, MapSeq(EnemyUpdate, enemies)),
                HazardsAt(p1, level_index,
                          [i \in 1..Len(hazards) |-> HazardUpdateAnimation(hazards[i], 1)]),
                GoalAt(p1, level_index))
       /\ seen' = [seen EXCEPT !.rested = @ \/ (p1.change_y = 0 /\ Grounded(p1, level_index))]
  /\ FrameAudio(AudioWorks)

\* on_key_press(UP): the only key of this scenario
JumpRequest == OnKeyPressEngine("UP")

NextJump ==
  \/ StartKeyPress
  \/ SelectKeyPress
  \/ OnUpdateJump
  \/ JumpRequest

SpecJump == Init /\ [][NextJump]_vars

\* ============================================== the enemies, watched alone
\* Level descriptors a catalog could hold in place of LEVELS[i]: the entry
\* itself, and the entry with every enemy's patrol bounds inverted, or both
\* put at the enemy's start
Variants == {"catalog", "inverted", "pinned"}

Descriptor(i, v) ==
  LET level == Level(i) IN
  [level EXCEPT !.enemies =
     [k \in 1..Len(level.enemies) |->
        LET e == level.enemies[k] IN
        CASE v = "catalog" -> e
          [] v = "inverted" -> [e EXCEPT !.patrol_min_x = e.patrol_max_x,
                                         !.patrol_max_x = e.patrol_min_x]
          [] v = "pinned" -> [e EXCEPT !.patrol_min_x = e.position[1],
                                       !.patrol_max_x = e.position[1]]]]

\* The fields setup(li) assigns when LEVELS[li] is the descriptor level
SetupFieldsOf(level, li, sc, h) ==
  [ level_index |-> li,
    level_name |-> level.name,
    player |-> [ x |-> level.player_start[1] * U, y |-> level.player_start[2] * U,
                 change_x |-> 0, change_y |-> 0 ],
    coins |-> 1..Len(level.coins),
    total_coins |-> Len(level.coins),
    enemies |-> MapSeq(NewEnemy, level.enemies),
    hazards |-> MapSeq(NewHazard, level.hazards),
    score |-> IF li = 0 THEN 0 ELSE sc,
    health |-> IF li = 0 THEN PLAYER_MAX_HEALTH ELSE h,
    invuln_timer |-> 0 ]

\* GameView(gender); setup(i); show_view(game_view) with the descriptor
\* Descriptor(i, v) in the catalog: setup has no check of a descriptor
SetupDescriptor(i, v) ==
  /\ view = "select" /\ fault = "none"
  /\ \E f \in {SetupFieldsOf(Descriptor(i, v), i, 0, PLAYER_MAX_HEALTH)} :
       /\ ready' = TRUE
       /\ level_index' = f.level_index
       /\ level_name' = f.level_name
       /\ player' = f.player
       /\ coins' = f.coins
       /\ total_coins' = f.total_coins
       /\ enemies' = f.enemies
       /\ hazards' = f.hazards
       /\ score' = f.score
       /\ health' = f.health
       /\ invuln_timer' = f.invuln_timer
  /\ audio' = SetupAudio(NoAudio, i, AudioWorks)
  /\ move_left' = FALSE /\ move_right' = FALSE
  /\ view' = "game"
  /\ frames' = 0
  /\ last' = NoFrame /\ since_hit' = INVULN_TIME /\ hit_in_level' = FALSE
  /\ UNCHANGED <<over, fault, seen>>

\* GameView.on_update(delta_time) with the player standing where nothing is:
\* every overlap query returns nothing and the player rests
OnUpdateQuiet ==
  /\ view = "game" /\ fault = "none" /\ ready
  /\ frames < MaxEnemyTicks
  /\ Frame(1, [HandleInput(player, move_left, move_right) EXCEPT !.change_y = 0],
           {}, FALSE, FALSE, FALSE)
  /\ FrameAudio(AudioWorks)
  /\ UNCHANGED seen

NextEnemy ==
  \/ StartKeyPress
  \/ \E i \in 0..(NumLevels - 1), v \in Variants : SetupDescriptor(i, v)
  \/ OnUpdateQuiet

SpecEnemy == Init /\ [][NextEnemy]_vars

\* ================================ knockback, the player walking into an enemy
\* A caller's GameView(gender); setup(len(LEVELS) - 1); show_view(game_view):
\* the last level, where the first enemy's patrol reaches the player stopped
\* by the step at the end of the first ledge.  seen.p starts as the player.
SetupKnock ==
  /\ view = "select" /\ fault = "none"
  /\ move_left' = FALSE /\ move_right' = FALSE
  /\ SetupFrom(NumLevels - 1, 0, PLAYER_MAX_HEALTH)
  /\ audio' = SetupAudio(NoAudio, NumLevels - 1, AudioWorks)
  /\ view' = "game"
  /\ last' = NoFrame /\ since_hit' = INVULN_TIME /\ hit_in_level' = FALSE
  /\ seen' = [NothingSeen EXCEPT !.p = player']
  /\ UNCHANGED over

\* GameView.on_update(delta_time), the engine computed, at a steady frame rate.
\* Next to it seen.p runs the same frame from its own state, with an enemy
\* knockback that leaves change_x as it is (every other field is the
\* session's); seen.enemyHit = a knockback has reversed a nonzero change_x.
OnUpdateKnock ==
  /\ view = "game" /\ fault = "none" /\ ready
  /\ frames < MaxKnockFrames
  /\ \E p1 \in {PhysicsUpdate(HandleInput(player, move_left, move_right), level_index)},
        q1 \in {PhysicsUpdate(HandleInput(seen.p, move_left, move_right), level_index)},
        es \in {MapSeq(EnemyUpdate, enemies)},
        hs \in {[i \in 1..Len(hazards) |-> HazardUpdateAnimation(hazards[i], 1)]} :
       /\ Frame(1, p1,
                CoinsAt(p1, level_index, coins),
                EnemiesAt(p1, level_index, es),
                HazardsAt(p1, level_index, hs),
                GoalAt(p1, level_index))
       /\ \E sq \in {CheckHazardCollisions(
                        CheckEnemyCollisionsKeepsDirection(
                          CheckCoinCollisions([score |-> score, health |-> health,
                                               invuln_timer |-> invuln_timer,
                                               player |-> q1, coins |-> coins],
                                              CoinsAt(q1, level_index, coins)),
                          1, EnemiesAt(q1, level_index, es)),
                        HazardsAt(q1, level_index, hs))} :
            seen' = [seen EXCEPT
                       !.p = sq.player,
                       !.enemyHit = @ \/ ( /\ p1.change_x # 0
                                           /\ player'.change_x = -p1.change_x )]
  /\ FrameAudio(AudioWorks)

NextKnock ==
  \/ StartKeyPress
  \/ SetupKnock
  \/ OnUpdateKnock
  \/ \E key \in {"LEFT", "RIGHT"} : OnKeyPressEngine(key)
  \/ \E key \in {"LEFT", "RIGHT"} : OnKeyRelease(key)

SpecKnock == Init /\ [][NextKnock]_vars

\* ======================================== the patrols, running without end
\* GameView.on_update(delta_time) called for ever by the window's event loop,
\* the player resting where nothing is.  The first MaxPatrolTicks calls are
\* counted and take any delta_time; the later ones are not counted and take
\* delta_time = 0, which stops the hazards' clocks (EnemySprite.update does
\* not read delta_time).
OnUpdateForever ==
  /\ view = "game" /\ fault = "none" /\ ready
  /\ \E dt \in (IF frames < MaxPatrolTicks THEN DeltaTimes ELSE {0}) :
       FrameCounting(dt,
                     [HandleInput(player, move_left, move_right) EXCEPT !.change_y = 0],
                     {}, FALSE, FALSE, FALSE, Min(frames + 1, MaxPatrolTicks))
  /\ FrameAudio(AudioWorks)
  /\ UNCHANGED seen

NextPatrol ==
  \/ StartKeyPress
  \/ \E i \in 0..(NumLevels - 1) : SetupCall(i)
  \/ OnUpdateForever

\* arcade calls on_update on every frame while the view is shown
SpecPatrol == Init /\ [][NextPatrol]_vars /\ WF_vars(OnUpdateForever)

\* =================================================================== claims
\* The scene is the one setup builds for the level level_index names
FreshScene ==
  LET level == LEVELS[level_index + 1] IN
  /\ player.x = level.player_start[1] * U
  /\ player.y = level.player_start[2] * U
  /\ coins = 1..Len(level.coins)
  /\ total_coins = Len(level.coins)
  /\ level_name = level.name
  /\ Len(enemies) = Len(level.enemies)
  /\ \A i \in 1..Len(enemies) :
       /\ enemies[i].x = level.enemies[i].position[1] * U
       /\ enemies[i].change_x = level.enemies[i].speed
  /\ Len(hazards) = Len(level.hazards)
  /\ \A i \in 1..Len(hazards) : hazards[i].time = 0

\* C1: a frame in which the loss condition (health <= 0 after the frame's
\* damage, or the player below the kill plane) and the clear condition (goal
\* overlapped with score >= total_coins) both hold ends Lost: the game-over
\* view shows a defeat, and the level is not advanced.
C1_LossBeatsClear ==
  (last.lose /\ last.clear) =>
     (last.out = "lost" /\ view = "over" /\ ~did_win /\ over_score = score)

C1_Witness == last.lose /\ last.clear /\ last.out = "lost" /\ level_index = 1

\* C2: clearing level i without loss advances to level i+1 in the same frame
\* with the score and health the frame left, the player at the new start and a
\* fresh scene; clearing the last level shows the victory with the score and
\* the last level's name; level_index changes only by +1 in on_update (or to 0
\* when character select starts a session), and Won comes only from the last
\* level.
C2_LevelProgression ==
  [][ /\ (last'.clear /\ ~last'.lose) =>
            last'.out = (IF level_index + 1 < NumLevels THEN "advance" ELSE "won")
      /\ last'.out = "advance" =>
            /\ level_index' = level_index + 1
            /\ view' = "game"
            /\ score' = last'.score /\ health' = last'.health
            /\ FreshScene'
      /\ last'.out = "won" =>
            /\ level_index = NumLevels - 1 /\ level_index' = level_index
            /\ view' = "over" /\ did_win'
            /\ over_score' = last'.score
            /\ over_level_name' = LEVELS[NumLevels].name
      /\ level_index' # level_index =>
            \/ last'.out = "advance" /\ level_index' = level_index + 1
            \/ view = "select" /\ level_index' = 0
      /\ did_win' => level_index' = NumLevels - 1
    ]_vars

C2_Witness ==
  /\ last.out = "advance" /\ level_index = 1 /\ view = "game"
  /\ score > 0 /\ health < PLAYER_MAX_HEALTH

\* C3: a frame clears its level only if the goal is overlapped and the score
\* is at least the level's total_coins, and (unless the frame is lost) it does
\* clear it then.
C3_GoalGating ==
  /\ last.out \in {"advance", "won"} => last.clear
  /\ (last.clear /\ ~last.lose) => last.out \in {"advance", "won"}

C3_Witness == last.out = "advance" /\ last.clear /\ frames = 0

\* C4: at every level clear (advance or victory) no coin of the cleared level
\* is left in the live coin set.
C4_ClearedMeansAllCoins ==
  last.out \in {"advance", "won"} => last.left = 0

\* C5 as stated: health drops in a frame only if the delta_time summed since
\* the previous damage event (this frame's included) has reached 1.0 s.
C5_NoDamageWithinWindow == last.hurt => last.waited

\* C5, amended: within one level, health drops in a frame only if the
\* delta_time summed since the previous damage event has reached 1.0 s (a
\* setup in between resets the timer); and once it has, enemy contact hurts.
C5_InvulnerabilityWindow ==
  /\ last.hurt => (last.waited \/ last.fresh)
  /\ last.due => (last.hurt /\ health = last.health)
  /\ (last.hurt /\ last.out # "advance") => invuln_timer = INVULN_TIME

C5_Witness == last.hurt /\ last.due /\ ~last.fresh /\ health = 1

\* C6: health is an integer in 0 .. PLAYER_MAX_HEALTH in every state.
C6_HealthBounded == health \in 0..PLAYER_MAX_HEALTH

C6_Witness == health = 0 /\ view = "over" /\ ~did_win

\* C7: no step lowers the score, except the setup(0) that starts a session
\* and sets it to 0.
C7_ScoreMonotone ==
  [][ score' < score => (view = "select" /\ level_index' = 0 /\ score' = 0) ]_vars

C7_Witness == last.out = "advance" /\ level_index = 2 /\ score >= 7

\* C8: the invulnerability timer is never negative, and it grows only in a
\* frame that hurts the player.
C8_TimerCountsDown ==
  /\ [](invuln_timer >= 0)
  /\ [][ invuln_timer' > invuln_timer => (last'.hurt /\ health' < health) ]_vars

C8_Witness == invuln_timer = 0 /\ hit_in_level /\ since_hit = INVULN_TIME /\ view = "game"

\* C9: for a valid index i, setup(i) followed immediately by on_update(0)
\* leaves the player's position, the score and the health as setup(i) left
\* them, except for the overlaps that hold at the spawn position (a coin there
\* is awarded, an enemy or hazard there hurts).
C9_RoundTrip ==
  [][ ( /\ view = "game" /\ fault = "none" /\ frames = 0
        /\ level_index \in 0..(NumLevels - 1)
        /\ ~move_left /\ ~move_right /\ player.change_y = 0
        /\ last'.zero )
      => /\ player'.x = player.x /\ player'.y = player.y
         /\ score' = score + Cardinality(CoinsAt(player, level_index, coins))
         /\ health' = health - (IF \/ EnemiesAt(player, level_index, enemies)
                                    \/ HazardsAt(player, level_index, hazards)
                                 THEN 1 ELSE 0)
    ]_vars

\* C10: setup(i) with i < 0 or i >= len(LEVELS) fails; the game is never
\* being played on an index outside 0 .. len(LEVELS) - 1.
C10_OutOfRangeIsFatal ==
  (view = "game" /\ fault = "none") => level_index \in 0..(NumLevels - 1)

\* C11: a level whose descriptor has an enemy with patrol_min_x > patrol_max_x
\* is never being played: its setup fails.
C11_MalformedFailsLoudly ==
  (view = "game" /\ fault = "none") =>
     \A k \in 1..Len(enemies) : enemies[k].min_x <= enemies[k].max_x

\* C12: every enemy of the catalog stays within its patrol bounds (both
\* included), and the magnitude of its velocity is the descriptor's speed.
C12_PatrolBounded ==
  view = "game" =>
    \A k \in 1..Len(enemies) :
       LET d == Level(level_index).enemies[k] IN
       (enemies[k].min_x = d.patrol_min_x * U /\ enemies[k].max_x = d.patrol_max_x * U)
         => /\ enemies[k].min_x <= enemies[k].x
            /\ enemies[k].x <= enemies[k].max_x
            /\ Abs(enemies[k].change_x) = d.speed

C12_Witness ==
  /\ view = "game" /\ level_index = 2 /\ frames > 0
  /\ enemies[1].min_x = Level(2).enemies[1].patrol_min_x * U
  /\ enemies[1].max_x = Level(2).enemies[1].patrol_max_x * U
  /\ enemies[1].x = enemies[1].min_x /\ enemies[1].change_x > 0

\* C13: a frame removes from the live coins exactly the coins the player
\* overlaps and adds their number to the score; the coin check run again on
\* the state it left changes nothing (a removed coin is never counted again).
C13_CoinPickup ==
  [][ (view = "game" /\ last'.out \in {"playing", "lost", "won"}) =>
        /\ coins' \subseteq coins
        /\ coins \ coins' = CoinsAt(player', level_index, coins)
        /\ score' = score + Cardinality(coins \ coins')
        /\ LET s == [score |-> score', health |-> health',
                     invuln_timer |-> invuln_timer', player |-> player',
                     coins |-> coins']
           IN CheckCoinCollisions(s, CoinsAt(player', level_index, coins')) = s
    ]_vars

C13_Witness ==
  /\ view = "game" /\ level_index = 1 /\ frames >= 2 /\ last.out = "playing"
  /\ 1 \notin coins /\ score = 1
  /\ Hits(player.x, player.y, PLAYER_HW, PLAYER_HH,
          Level(1).coins[1][1] * U, Level(1).coins[1][2] * U, COIN_H, COIN_H)

\* C14: a frame after whose damage resolution health <= 0, or in which the
\* player is below the level's kill plane (whatever the health), ends Lost in
\* that frame, the defeat view carrying the score and the level's name; and
\* the defeat view is entered only by such a frame.
C14_LossDetection ==
  /\ [](last.lose =>
          /\ last.out = "lost" /\ view = "over" /\ ~did_win
          /\ over_score = last.score /\ over_score = score
          /\ over_level_name = Level(level_index).name)
  /\ [][ (view # "over" /\ view' = "over" /\ ~did_win') => last'.lose ]_vars

C14_Witness ==
  /\ last.lose /\ last.out = "lost" /\ view = "over"
  /\ health = PLAYER_MAX_HEALTH /\ level_index = 1 /\ over_score > 0

\* C15: setup(i) with i > 0 keeps the score and the health it finds, setup(0)
\* sets them to 0 and PLAYER_MAX_HEALTH; every setup sets the invulnerability
\* timer to 0 and total_coins to the number of coins of level i, puts the
\* player on level i's start and leaves exactly level i's coins, enemies and
\* hazards in the scene.
C15_SetupEffect ==
  [][ (view' = "game" /\ frames' = 0 /\ (view = "select" \/ last'.out = "advance")) =>
        /\ level_index' > 0 => (score' = last'.score /\ health' = last'.health)
        /\ level_index' = 0 => (score' = 0 /\ health' = PLAYER_MAX_HEALTH)
        /\ invuln_timer' = 0
        /\ total_coins' = Len(Level(level_index').coins)
        /\ player'.change_x = 0 /\ player'.change_y = 0
        /\ FreshScene'
    ]_vars

C15_Witness ==
  /\ view = "game" /\ frames = 0 /\ last.out = "advance" /\ level_index = 2
  /\ last.hurt /\ invuln_timer = 0
  /\ health < PLAYER_MAX_HEALTH /\ score > total_coins

\* C16: from the game-over view (Won or Lost) the only way on is the start
\* view, then character select; score, health and level index stay as the
\* session left them until character select starts a new session, which
\* begins at level 0 with score 0 and full health.
C16_Terminal ==
  [][ /\ view = "over" => view' \in {"over", "start"}
      /\ view = "start" => view' \in {"start", "select"}
      /\ (view # "game" /\ view' # "game") =>
            (score' = score /\ health' = health /\ level_index' = level_index)
      /\ (view # "game" /\ view' = "game") =>
            /\ view = "select"
            /\ score' = 0 /\ health' = PLAYER_MAX_HEALTH /\ level_index' = 0
            /\ frames' = 0 /\ FreshScene'
    ]_vars

C16_Witness ==
  /\ view = "select" /\ level_index = NumLevels - 1
  /\ score > 0 /\ health < PLAYER_MAX_HEALTH

\* C17: a jump request sets change_y to PLAYER_JUMP_SPEED exactly when
\* can_jump() holds and changes nothing otherwise; on level 0 with no input
\* the player is at rest on the ground tile under the spawn after three
\* frames and can jump; and once it has stood on the ground, a jump request
\* made while it is off the ground changes nothing.
C17_JumpGating ==
  /\ [][ (view = "game" /\ view' = "game" /\ frames' = frames) =>
           player' = IF CanJump(player, level_index)
                     THEN [player EXCEPT !.change_y = PLAYER_JUMP_SPEED * U]
                     ELSE player ]_vars
  /\ []( (view = "game" /\ frames = 3 /\ player.change_y <= 0) =>
           /\ seen.rested /\ player.change_y = 0
           /\ player.x = Level(0).player_start[1] * U
           /\ player.y = Level(0).ground_segments[1][3] * U + TILE_H + PLAYER_HH
           /\ CanJump(player, level_index) )
  /\ [][ (view = "game" /\ view' = "game" /\ frames' = frames
           /\ seen.rested /\ ~Grounded(player, level_index)) =>
           player' = player ]_vars

C17_Witness ==
  /\ view = "game" /\ seen.rested /\ ~Grounded(player, level_index)
  /\ last = NoFrame
  /\ player.change_y > 0 /\ player.change_y < PLAYER_JUMP_SPEED * U

\* C18: no failure of load_sound, play_sound or stop_sound ends setup or a
\* frame, and the session goes on as it does when audio works: setup(0)
\* starts the session, and each frame leaves score, health, timer, level
\* index and view as the frame's inputs alone determine.
C18_AudioNeverInterrupts ==
  /\ [](fault # "AudioError")
  /\ [][ (view = "select" /\ view' # "select") =>
           (view' = "game" /\ SetupFrom(0, 0, PLAYER_MAX_HEALTH)) ]_vars
  /\ [][ view = "game" =>
           Frame(seen'.dt, seen'.p, seen'.coinsHit, seen'.enemyHit,
                 seen'.hazardHit, seen'.goalHit) ]_vars

C18_Witness ==
  /\ seen.raised /\ audio.sounds > 0 /\ ~audio.music_player
  /\ last.out = "advance" /\ last.hurt /\ level_index = 1 /\ view = "game"

\* C19: in a frame where the timer, lowered by delta_time and floored at 0,
\* is 0 and an enemy is overlapped, health drops by exactly 1, the timer
\* becomes 1.0 s, change_y becomes PLAYER_JUMP_SPEED / 2 and change_x is
\* negated; where the lowered timer is still above 0, health and velocity
\* are as the physics step left them.
C19_EnemyContact ==
  [][ last'.out \in {"playing", "lost"} =>
        LET t == Max(0, invuln_timer - seen'.dt) IN
        /\ (t = 0 /\ seen'.enemyHit) =>
              /\ health' = health - 1
              /\ invuln_timer' = INVULN_TIME
              /\ player'.change_y = Px(PLAYER_JUMP_SPEED, 2)
              /\ player'.change_x = -seen'.p.change_x
        /\ t > 0 =>
              /\ health' = health
              /\ invuln_timer' = t
              /\ player'.change_y = seen'.p.change_y
              /\ player'.change_x = seen'.p.change_x
    ]_vars

C19_Witness ==
  /\ last.hurt /\ seen.enemyHit /\ seen.hazardHit
  /\ seen.p.change_x > 0 /\ player.change_x = -seen.p.change_x
  /\ player.change_y = Px(PLAYER_JUMP_SPEED, 2) /\ health = 1

\* C20: the hazard check leaves the timer as the enemy check left it and does
\* nothing while that timer is above 0; when it is 0 and a hazard is
\* overlapped, health drops by exactly 1, the timer becomes 1.0 s, change_y
\* becomes PLAYER_JUMP_SPEED / 1.5 (not the enemy's knockback) and change_x
\* stays as it was.
C20_HazardContact ==
  [][ last'.out \in {"playing", "lost"} =>
        LET t == Max(0, invuln_timer - seen'.dt)
            byEnemy == t = 0 /\ seen'.enemyHit
            te == IF byEnemy THEN INVULN_TIME ELSE t
        IN
        /\ (te = 0 /\ seen'.hazardHit) =>
              /\ health' = health - 1
              /\ invuln_timer' = INVULN_TIME
              /\ player'.change_y = Px(PLAYER_JUMP_SPEED * 2, 3)
              /\ player'.change_y # Px(PLAYER_JUMP_SPEED, 2)
              /\ player'.change_x = seen'.p.change_x
        /\ (te > 0 \/ ~seen'.hazardHit) =>
              /\ invuln_timer' = te
              /\ health' = health - (IF byEnemy THEN 1 ELSE 0)
              /\ ~byEnemy => /\ player'.change_y = seen'.p.change_y
                             /\ player'.change_x = seen'.p.change_x
    ]_vars

C20_Witness ==
  /\ last.hurt /\ seen.hazardHit /\ ~seen.enemyHit /\ level_index = 2
  /\ seen.p.change_x < 0 /\ player.change_x = seen.p.change_x
  /\ player.change_y = Px(PLAYER_JUMP_SPEED * 2, 3) /\ health = 0

C22_DegeneratePatrol ==
  [][ (view = "game" /\ view' = "game" /\ frames' = frames + 1) =>
        \A k \in 1..Len(enemies) :
           ( /\ enemies[k].min_x = enemies[k].max_x
             /\ enemies[k].x = enemies[k].min_x
             /\ enemies[k].change_x # 0 ) =>
               /\ enemies'[k].x = enemies[k].min_x
               /\ enemies'[k].min_x = enemies[k].min_x
               /\ enemies'[k].max_x = enemies[k].max_x
               /\ enemies'[k].change_x * enemies[k].change_x < 0 ]_vars

C22_Witness ==
  /\ view = "game" /\ frames = 3
  /\ \E k \in 1..Len(enemies) :
        /\ enemies[k].min_x = enemies[k].max_x
        /\ enemies[k].x = Level(level_index).enemies[k].position[1] * U
        /\ enemies[k].x = enemies[k].min_x
        /\ enemies[k].change_x = 0 - Level(level_index).enemies[k].speed
        /\ enemies[k].change_x # 0

\* C23: a frame takes at most 1 from health, also when the player overlaps an
\* enemy and a hazard in that frame: the enemy hit starts the window, the
\* hazard check that follows sees it and does nothing, so the frame ends with
\* the enemy's knockback and the timer at 1.0 s.
C23_OneDamagePerFrame ==
  [][ view = "game" =>
        /\ health' >= health - 1
        /\ (seen'.enemyHit /\ seen'.hazardHit /\ health' # health) =>
              /\ health' = health - 1
              /\ invuln_timer' = INVULN_TIME
              /\ player'.change_y = Px(PLAYER_JUMP_SPEED, 2)
              /\ player'.change_y # Px(PLAYER_JUMP_SPEED * 2, 3)
    ]_vars

C23_Witness ==
  /\ view = "game" /\ last.hurt /\ seen.enemyHit /\ seen.hazardHit
  /\ Len(enemies) > 0 /\ Len(hazards) > 0
  /\ health = PLAYER_MAX_HEALTH - 1 /\ invuln_timer = INVULN_TIME
  /\ player.change_y = Px(PLAYER_JUMP_SPEED, 2)

\* C24: coin conservation. While a level is played, the score gained since the
\* level's setup plus the number of live coins is the level's total_coins: a
\* setup leaves every coin of the level live (so the gain is 0), and no later
\* step changes score + live coins - total_coins. Hence the score never
\* exceeds the coin counts of the levels 0..level_index added up.
C24_CoinConservation ==
  /\ [][ (view' = "game" /\ ready' /\ fault' = "none") =>
            IF view # "game" \/ level_index' # level_index
            THEN /\ Cardinality(coins') = total_coins'
                 /\ total_coins' = Len(Level(level_index').coins)
            ELSE score' + Cardinality(coins') - total_coins'
                   = score + Cardinality(coins) - total_coins ]_vars
  /\ [] ( (view = "game" /\ ready /\ fault = "none") =>
            LET upTo[i \in 0..(NumLevels - 1)] ==
                  Len(Level(i).coins) + (IF i = 0 THEN 0 ELSE upTo[i - 1])
            IN /\ Cardinality(coins) <= total_coins
               /\ score + Cardinality(coins) - total_coins >= 0
               /\ score <= upTo[level_index] )

C24_Witness ==
  /\ view = "game" /\ level_index = 1 /\ last.out = "playing"
  /\ score + Cardinality(coins) - total_coins > 0
  /\ Cardinality(coins) = total_coins - 2

\* C25: in a session started by setup(0) and driven by on_update, the level
\* index names an entry of LEVELS (0 .. len(LEVELS) - 1), total_coins and
\* level_name are that entry's, no setup call failed on its index, and the
\* index changes only by on_update's step to the next entry, or by the
\* setup(0) of a new session.
C25_CatalogConsistency ==
  /\ [] ( /\ fault = "none"
          /\ ready =>
                /\ level_index \in 0..(NumLevels - 1)
                /\ total_coins = Len(LEVELS[level_index + 1].coins)
                /\ level_name = LEVELS[level_index + 1].name )
  /\ [][ level_index' # level_index =>
            \/ view = "select" /\ level_index' = 0
            \/ /\ view = "game" /\ last'.out = "advance"
               /\ level_index' = level_index + 1
               /\ level_index' < NumLevels ]_vars

C25_Witness ==
  /\ view = "game" /\ ready /\ fault = "none" /\ frames > 0
  /\ level_index = NumLevels - 1 /\ last.out = "playing"
  /\ level_name = LEVELS[NumLevels].name
  /\ total_coins = Len(LEVELS[NumLevels].coins)

\* C26: the reversal of change_x by an enemy knockback never shows in the
\* player's position: run the same keys and frames with a knockback that
\* leaves change_x alone, and the player is at the same place after every
\* frame (the reversal comes after the frame's physics step, and the next
\* frame's _handle_input assigns change_x from the flags before the next one).
C26_ReversalNeverMoves ==
  (view \in {"game", "over"} /\ ready) =>
     /\ player.x = seen.p.x
     /\ player.y = seen.p.y
     /\ player.change_y = seen.p.change_y

C26_Witness ==
  /\ view = "game" /\ seen.enemyHit /\ since_hit = 1 /\ ~last.hurt
  /\ ~move_left /\ ~move_right
  /\ player.change_x = 0 /\ seen.p.change_x = 0
  /\ player.x = seen.p.x

\* C27: patrol liveness. While on_update keeps being called, every enemy whose
\* patrol_min_x is below its patrol_max_x and whose speed is not zero is at
\* patrol_max_x again and again and at patrol_min_x again and again; and where
\* it is after n calls is what n updates make of the descriptor's enemy,
\* whatever the frames' delta_time was.
C27_PatrolLiveness ==
  /\ \A i \in 0..(NumLevels - 1) : \A k \in 1..Len(Level(i).enemies) :
        LET on == /\ view = "game" /\ level_index = i
                  /\ enemies[k].min_x < enemies[k].max_x
                  /\ enemies[k].change_x # 0
        IN /\ []<>(on => enemies[k].x = enemies[k].max_x)
           /\ []<>(on => enemies[k].x = enemies[k].min_x)
  /\ [] ( (view = "game" /\ frames < MaxPatrolTicks) =>
            \A k \in 1..Len(enemies) :
               LET after[n \in 0..MaxPatrolTicks] ==
                     IF n = 0 THEN NewEnemy(Level(level_index).enemies[k])
                     ELSE EnemyUpdate(after[n - 1])
               IN enemies[k] = after[frames] )

C27_Witness ==
  /\ view = "game" /\ level_index = 2 /\ frames = MaxPatrolTicks
  /\ enemies[1].min_x < enemies[1].max_x
  /\ enemies[1].x = enemies[1].min_x /\ enemies[1].change_x > 0
  /\ hazards[2].time > 0

====
